---------------------------- MODULE Spec2Model ----------------------------
(***************************************************************************)
(* A model of schedulerx: pods register in one shared members map, the     *)
(* computed leader materializes cron occurrences as jobs and assigns them, *)
(* and executor loops lock, run and finalize them.                         *)
(*                                                                         *)
(* The clock `now` counts whole seconds.  A time.Time value is a record    *)
(* [sec, nsec] where sub-second precision matters (NewJob), and a plain    *)
(* number of seconds elsewhere.  Strings that the code builds or splits    *)
(* (command ids, job ids) are sequences of one-character strings; pod ids  *)
(* are only compared, so they stay TLA+ strings.                           *)
(***************************************************************************)
EXTENDS Integers, Sequences, FiniteSets, TLC

VARIABLES
    now,        \* wall clock, seconds
    members,    \* store key schedulerx:pods : pod id -> PodInfo
    pod,        \* per pod: PodManager.info and the position of its goroutines
    zset,       \* store key scheduler:jobs : member (job id) -> score
    detail,     \* store keys scheduler:job:{id} : job id -> Job record
    lock,       \* store keys schedulerx:job_lock:{id} : job id -> value
    asg,        \* the assignment routines started by ScheduleJobs
    exe,        \* the execution routines started by ScheduleJobs
    runs,       \* history: per job id, its assigned_to each time it was marked running
    arg,        \* inputs of a pure-function call (SpecJobId, SpecLeader)
    res         \* results of a pure-function call

vars == <<now, members, pod, zset, detail, lock, asg, exe, runs, arg, res>>
storeVars == <<zset, detail, lock>>
histVars == <<runs>>
callVars == <<arg, res>>

Nil == "nil"

-----------------------------------------------------------------------------
(* Bounds of the model *)

MaxTime == 5         \* the clock stops here
MaxSched == 60       \* cron occurrences later than this second are not tracked
MaxRoutines == 1     \* assignment / execution routines that are ever started
MaxUnix == 11        \* largest scheduled second drawn as a NewJob input
MaxStart == 2        \* largest start_time / now drawn as a GetLeader input
MaxNow == 61         \* largest tick time drawn as an input of one materializer tick
NextJobCount == 1    \* NEXT_JOB_COUNT of the modelled deployment (the default is 1000)
MaxJobCount == 2     \* largest NEXT_JOB_COUNT drawn as an input of one AssignJobs call
MaxFailures == 2     \* failing store writes drawn within one materializer tick

-----------------------------------------------------------------------------
(* Program constants *)

podTTL == 2
podTTLFlag == 5
HeartbeatInterval == 5
SchedulingWindow == 300
ExecutionSleep == 5
LsPeriod == 60
EchoPeriod == 5
ShellPeriod == 1800
DuPeriod == 300
PingPeriod == 600

Pods == {"a", "b"}

\* Position of a pod id in the lexicographic order of pod ids.
PodRank(p) == CASE p = "a" -> 1 [] p = "b" -> 2 [] OTHER -> 0

-----------------------------------------------------------------------------
(* Job ids: fmt.Sprintf("%s_%d", commandID, scheduledAt.Unix()) *)

Digits == <<"0", "1", "2", "3", "4", "5", "6", "7", "8", "9">>

\* time.Time.Unix(): the seconds of the instant, nanoseconds dropped.
Unix(t) == t.sec

RECURSIVE FormatNat(_)
FormatNat(n) ==
    IF n < 10 THEN <<Digits[n + 1]>>
    ELSE FormatNat(n \div 10) \o <<Digits[(n % 10) + 1]>>

\* The %d verb on an int64.
FormatInt(n) == IF n < 0 THEN <<"-">> \o FormatNat(0 - n) ELSE FormatNat(n)

NewJobIDNoSeparator(commandID, scheduledAt) ==
    commandID \o FormatInt(Unix(scheduledAt))

NewJobID(commandID, scheduledAt) ==
    commandID \o <<"_">> \o FormatInt(Unix(scheduledAt))

Scheduled == "scheduled"
Assigned == "assigned"
Running == "running"
Failed == "failed"
Success == "success"

\* NewJob: AssignedTo is left at its zero value.
NewJob(commandID, scheduledAt) ==
    [ID |-> NewJobID(commandID, scheduledAt),
     CommandID |-> commandID,
     Status |-> Scheduled,
     ScheduledAt |-> scheduledAt,
     AssignedTo |-> ""]

-----------------------------------------------------------------------------
(* Leader computation over a members snapshot *)

\* cleanupDeadPods: keep the pods seen within podTTL.
cleanupDeadPods(pods, t) ==
    [p \in {q \in DOMAIN pods : t - pods[q].LastSeen <= podTTL} |-> pods[p]]

\* GetLeader: the ids that podSlice[0] can hold after sort.Slice.  The slice is
\* filled in map iteration order, which Go leaves unspecified, and the less
\* function compares start_time only, so any live pod that no other live pod
\* precedes can end up first.
GetLeader(pods, t) ==
    LET live == cleanupDeadPods(pods, t) IN
    IF DOMAIN live = {} THEN {""}
    ELSE {p \in DOMAIN live :
            \A q \in DOMAIN live : ~(live[q].StartTime < live[p].StartTime)}

\* A leader check that every pod passes.
IsLeaderAlways(p, leaderID) == TRUE

\* IsLeader on pod p, for one outcome of GetLeader.
IsLeader(p, leaderID) == leaderID = p


-----------------------------------------------------------------------------
(* Commands and the cron oracle *)

CmdLs == <<"l", "s">>

\* The registry, with each command's Schedule() as the period in seconds of
\* its cron expression: "0 * * * * *" of ls fires on the full minutes.  One
\* command of the five is modelled; the others go through the same loop of
\* ScheduleJobs with other periods.
Commands == {[id |-> CmdLs, period |-> LsPeriod]}

\* All five commands that registerCommands registers: echo "*/5 * * * * *",
\* shell "0 */30 * * * *", ls, du "0 */5 * * * *", ping "0 */10 * * * *".
Registry ==
    Commands \cup
    {[id |-> <<"e", "c", "h", "o">>, period |-> EchoPeriod],
     [id |-> <<"s", "h", "e", "l", "l">>, period |-> ShellPeriod],
     [id |-> <<"d", "u">>, period |-> DuPeriod],
     [id |-> <<"p", "i", "n", "g">>, period |-> PingPeriod]}

\* The registered commands that fire on whole minutes.  echo fires sixty times
\* in every window, so its next two occurrences are always inside it.
MinuteCommands == {c \in Registry : c.period >= LsPeriod}

\* cron.Schedule.Next(t): the first firing second strictly after t.
CronNext(period, t) == ((t \div period) + 1) * period

\* A firing time as a time.Time: cron fires on whole seconds.
AtSecond(s) == [sec |-> s, nsec |-> 0]

\* The loop of ScheduleJobs for one command: next := Next(now); while
\* next.Before(endTime) { store; next = Next(next) }, followed up to the
\* firing second last.
RECURSIVE OccurrencesThroughEnd(_, _, _, _)
OccurrencesThroughEnd(period, next, endTime, last) ==
    IF next <= endTime /\ next <= last
    THEN {next} \cup OccurrencesThroughEnd(period, CronNext(period, next), endTime, last)
    ELSE {}

RECURSIVE Occurrences(_, _, _, _)
Occurrences(period, next, endTime, last) ==
    IF next < endTime /\ next <= last
    THEN {next} \cup Occurrences(period, CronNext(period, next), endTime, last)
    ELSE {}

\* The loop as the state machine runs it: occurrences after MaxSched are left
\* out of the model.
FiringTimes(period, next, endTime) == Occurrences(period, next, endTime, MaxSched)

\* Every job id the model can hold.
AllJobIDs ==
    UNION {{NewJobID(c.id, AtSecond(s)) :
                s \in FiringTimes(c.period, CronNext(c.period, 0), MaxSched + 1)} :
            c \in Commands}

-----------------------------------------------------------------------------
(* The store *)

\* Keys of the store are present or absent: a map is a function on the keys
\* that exist.
EmptyMap == [x \in {} |-> Nil]
Put(map, key, value) ==
    [x \in DOMAIN map \cup {key} |-> IF x = key THEN value ELSE map[x]]
Remove(map, key) == [x \in DOMAIN map \ {key} |-> map[x]]

\* ASCII order of the characters that occur in job ids.
Alphabet == <<"-", "0", "1", "2", "3", "4", "5", "6", "7", "8", "9", "_",
              "a", "b", "c", "d", "e", "f", "g", "h", "i", "j", "k", "l", "m",
              "n", "o", "p", "q", "r", "s", "t", "u", "v", "w", "x", "y", "z">>
CharRank(c) == CHOOSE i \in 1..Len(Alphabet) : Alphabet[i] = c

RECURSIVE LexLess(_, _)
LexLess(s, t) ==
    IF t = <<>> THEN FALSE
    ELSE IF s = <<>> THEN TRUE
    ELSE IF Head(s) = Head(t) THEN LexLess(Tail(s), Tail(t))
    ELSE CharRank(Head(s)) < CharRank(Head(t))

\* Sorted-set order: by score, then by member.
ZLess(z, m, n) == z[m] < z[n] \/ (z[m] = z[n] /\ LexLess(m, n))

RECURSIVE ZSorted(_, _)
ZSorted(z, S) ==
    IF S = {} THEN <<>>
    ELSE LET m == CHOOSE x \in S : \A y \in S \ {x} : ZLess(z, x, y)
         IN <<m>> \o ZSorted(z, S \ {m})

\* ZRANGE key start stop, with stop = -1 for the last member.
ZRange(z, start, stop) ==
    LET all == ZSorted(z, DOMAIN z)
        last == IF stop < 0 THEN Len(all) + 1 + stop
                ELSE IF stop + 1 > Len(all) THEN Len(all) ELSE stop + 1
    IN SubSeq(all, start + 1, last)

\* Job.UpdateInRedis: SET the detail record, and ZREM the id once the job is
\* success or failed.  No caller exists in the scheduler.
UpdateInRedis(d, z, job) ==
    [detail |-> Put(d, job.ID, job),
     zset |-> IF job.Status \in {Success, Failed} THEN Remove(z, job.ID) ELSE z]

\* SET the detail record and ZADD the id with score 0.
StoreUnscored(d, z, job) ==
    [detail |-> Put(d, job.ID, job),
     zset |-> Put(z, job.ID, 0)]

\* SET the detail record and ZINCRBY the id by the scheduled second.
StoreByIncrement(d, z, job) ==
    [detail |-> Put(d, job.ID, job),
     zset |-> Put(z, job.ID,
                  (IF job.ID \in DOMAIN z THEN z[job.ID] ELSE 0) + Unix(job.ScheduledAt))]

\* Job.StoreInRedis: SET the detail record and ZADD the id with the scheduled
\* second as score, whatever the status.
StoreInRedis(d, z, job) ==
    [detail |-> Put(d, job.ID, job),
     zset |-> Put(z, job.ID, Unix(job.ScheduledAt))]

\* SET key value ttl: taken whether or not the key exists.
SetAlways(l, key, value) == [acquired |-> TRUE, lock |-> Put(l, key, value)]

\* SETNX key value ttl.
SetNX(l, key, value) ==
    IF key \notin DOMAIN l
    THEN [acquired |-> TRUE, lock |-> Put(l, key, value)]
    ELSE [acquired |-> FALSE, lock |-> l]

\* A DEL that leaves the key in place.
DelNothing(l, key) == l

\* DEL key.
Del(l, key) == Remove(l, key)

-----------------------------------------------------------------------------
(* Membership: PodManager *)

PodInfo(id, startTime, lastSeen) ==
    [ID |-> id, StartTime |-> startTime, LastSeen |-> lastSeen, Status |-> "active"]

\* The clock never runs backwards and stops at MaxTime.  Only the steps that
\* read the clock or wait on a timer show a change of `now`: a step that does
\* neither gives the same state before or after the clock moves, so each
\* reading step takes the time that passed since the step before it, and a
\* tick that returns without doing anything leaves no trace, the time it took
\* included.  Clock(t) holds the readings open to a step that cannot happen
\* before second t.
Clock(t) == {u \in now..MaxTime : u >= t}

\* A pod's goroutines exist once Initialize has returned.
Started(p) == pod[p].st \in {"up", "beating"}

\* Initialize up to the read inside registerPod: pm.info is set from the
\* clock and the members map is fetched.
Initialize(p) ==
    /\ pod[p].st = "down"
    /\ \E t \in Clock(now) :
        /\ now' = t
        /\ pod' = [pod EXCEPT ![p] = [st |-> "registering",
                                      info |-> PodInfo(p, t, t),
                                      snap |-> members]]
    /\ UNCHANGED <<members, storeVars, asg, exe, histVars, callVars>>

\* updatePresence up to the read inside registerPod, on the presence ticker.
\* The map it fetches and prunes itself is a local that is never written:
\* registerPod fetches the map again.
updatePresence(p) ==
    /\ pod[p].st = "up"
    /\ \E t \in Clock(pod[p].info.LastSeen + HeartbeatInterval) :
        /\ now' = t
        /\ pod' = [pod EXCEPT ![p] = [st |-> "beating",
                                      info |-> [@.info EXCEPT !.LastSeen = t],
                                      snap |-> members]]
    /\ UNCHANGED <<members, storeVars, asg, exe, histVars, callVars>>

\* registerPod from its write on: the fetched map with this pod's entry set is
\* written back whole.
registerPod(p) ==
    /\ pod[p].st \in {"registering", "beating"}
    /\ members' = Put(pod[p].snap, p, pod[p].info)
    /\ pod' = [pod EXCEPT ![p] = [@ EXCEPT !.st = "up", !.snap = EmptyMap]]
    /\ UNCHANGED <<now, storeVars, asg, exe, histVars, callVars>>

-----------------------------------------------------------------------------
(* Materializer: Scheduler.ScheduleJobs *)

\* The zero value of command.Job.
ZeroJob ==
    [ID |-> <<>>, CommandID |-> <<>>, Status |-> "", ScheduledAt |-> AtSecond(0),
     AssignedTo |-> ""]

IdleAssigner(p) ==
    [pod |-> p, pc |-> "wait", pods |-> <<>>, jobs |-> <<>>, i |-> 0, job |-> ZeroJob]

IdleExecutor(p) ==
    [pod |-> p, pc |-> "wait", self |-> "", jobs |-> <<>>, job |-> ZeroJob, wake |-> 0]

\* The jobs one tick at time t builds with NewJob, over all commands, with the
\* loop followed up to the firing second last.
JobsOf(cmds, t, last) ==
    UNION {{NewJob(c.id, AtSecond(s)) :
                s \in Occurrences(c.period, CronNext(c.period, t),
                                  t + SchedulingWindow, last)} :
            c \in cmds}

\* The same over the commands of the state machine.
JobsUpTo(t, last) == JobsOf(Commands, t, last)

\* The jobs a tick of the state machine builds.
JobsInWindow(t) == JobsUpTo(t, MaxSched)

\* job.StoreInRedis for each job of a set; the ids differ, so the order of the
\* writes does not show in the result.
RECURSIVE StoreAll(_, _, _)
StoreAll(d, z, jobs) ==
    IF jobs = {} THEN [detail |-> d, zset |-> z]
    ELSE LET job == CHOOSE j \in jobs : TRUE
             st == StoreInRedis(d, z, job)
         IN StoreAll(st.detail, st.zset, jobs \ {job})

\* One tick of the scheduling routine of main: ScheduleJobs.  A pod that is not
\* the leader returns at once.  The leader stores a fresh job for every
\* firing time in the window and then starts one more assignment routine and
\* one more execution routine (at most maxRoutines of each are modelled).
ScheduleJobsUpTo(p, maxRoutines) ==
    /\ Started(p)
    /\ \E t \in Clock(now) : \E leaderID \in GetLeader(members, t) :
        IF IsLeader(p, leaderID)
           THEN LET st == StoreAll(detail, zset, JobsInWindow(t)) IN
                /\ now' = t
                /\ detail' = st.detail
                /\ zset' = st.zset
                /\ IF Len(asg) < maxRoutines
                   THEN /\ asg' = Append(asg, IdleAssigner(p))
                        /\ exe' = Append(exe, IdleExecutor(p))
                   ELSE UNCHANGED <<asg, exe>>
           ELSE UNCHANGED <<now, detail, zset, asg, exe>>
    /\ UNCHANGED <<members, pod, lock, histVars, callVars>>

\* The tick with the routines capped at MaxRoutines.
ScheduleJobs(p) == ScheduleJobsUpTo(p, MaxRoutines)

-----------------------------------------------------------------------------
(* Assigner: the assignment routine and Scheduler.AssignJobs *)

\* The tickers of the routines give no phase: a time.Ticker keeps one tick
\* for a receiver that is still busy, and a call of ExecuteAssignedJobs lasts
\* as long as the jobs it runs, so a routine's next tick comes at any time
\* relative to the presence ticker.  A tick is therefore free to happen at any
\* clock reading.

\* The orders in which ranging over the keys of a map can fill a slice.
RECURSIVE Orderings(_)
Orderings(S) ==
    IF S = {} THEN {<<>>}
    ELSE UNION {{<<x>> \o rest : rest \in Orderings(S \ {x})} : x \in S}

Range(seq) == {seq[n] : n \in 1..Len(seq)}

\* jobCount of AssignJobs for a configured NEXT_JOB_COUNT.
jobCount(nextJobCount) == IF nextJobCount <= 0 THEN 3 ELSE nextJobCount

\* jobCount of AssignJobs in the modelled deployment.
JobCount == jobCount(NextJobCount)

\* The for loop of AssignJobs moves to the next index, or AssignJobs returns.
AssignNext(a) ==
    IF a.i + 1 < Len(a.jobs)
    THEN [a EXCEPT !.pc = "get", !.i = @ + 1, !.job = ZeroJob]
    ELSE IdleAssigner(a.pod)

\* A tick of an assignment routine: the leader check, itself one read of the
\* members map.  A pod that is not the leader waits for the next tick.
AssignTick(k) ==
    /\ asg[k].pc = "wait"
    /\ \E t \in Clock(now) : \E leaderID \in GetLeader(members, t) :
        IF IsLeader(asg[k].pod, leaderID)
           THEN /\ now' = t
                /\ asg' = [asg EXCEPT ![k] = [@ EXCEPT !.pc = "pods"]]
           ELSE UNCHANGED <<now, asg>>
    /\ UNCHANGED <<members, pod, storeVars, exe, histVars, callVars>>

\* The tick goes on to the loop of AssignJobs: the members map is read again,
\* as it is stored (no pruning), the pod slice is filled in map iteration
\* order, and the first jobCount members of the sorted set are fetched.
AssignPods(k) ==
    /\ asg[k].pc = "pods"
    /\ \E availablePods \in Orderings(DOMAIN members) :
        LET jobs == ZRange(zset, 0, JobCount - 1) IN
        asg' = [asg EXCEPT ![k] =
                  IF Len(availablePods) = 0 \/ jobs = <<>>
                  THEN IdleAssigner(@.pod)
                  ELSE [@ EXCEPT !.pc = "get", !.pods = availablePods,
                                 !.jobs = jobs, !.i = 0]]
    /\ UNCHANGED <<now, members, pod, storeVars, exe, histVars, callVars>>

\* One iteration of the loop up to its first write: read the detail record
\* and decide.
AssignGet(k) ==
    LET a == asg[k]
        jobID == a.jobs[a.i + 1]
    IN
    /\ a.pc = "get"
    /\ asg' = [asg EXCEPT ![k] =
            IF jobID \notin DOMAIN detail THEN AssignNext(a)
            ELSE LET job == detail[jobID] IN
                 IF job.Status = Running THEN AssignNext(a)
                 ELSE IF job.AssignedTo # ""
                      THEN IF job.AssignedTo \in Range(a.pods)
                           THEN AssignNext(a)
                           ELSE [a EXCEPT !.pc = "unassign", !.job = job]
                      ELSE [a EXCEPT !.pc = "put", !.job = job]]
    /\ UNCHANGED <<now, members, pod, storeVars, exe, histVars, callVars>>

\* The job was assigned to a pod that is not in the slice: store it
\* unassigned first.
AssignUnassign(k) ==
    LET a == asg[k]
        job == [a.job EXCEPT !.AssignedTo = "", !.Status = Scheduled]
        st == StoreInRedis(detail, zset, job)
    IN
    /\ a.pc = "unassign"
    /\ detail' = st.detail
    /\ zset' = st.zset
    /\ asg' = [asg EXCEPT ![k] = [a EXCEPT !.pc = "put", !.job = job]]
    /\ UNCHANGED <<now, members, pod, lock, exe, histVars, callVars>>

\* Store the job as assigned to pods[i % len(pods)].
AssignPut(k) ==
    LET a == asg[k]
        podID == a.pods[(a.i % Len(a.pods)) + 1]
        job == [a.job EXCEPT !.AssignedTo = podID, !.Status = Assigned]
        st == StoreInRedis(detail, zset, job)
    IN
    /\ a.pc = "put"
    /\ detail' = st.detail
    /\ zset' = st.zset
    /\ asg' = [asg EXCEPT ![k] = AssignNext(a)]
    /\ UNCHANGED <<now, members, pod, lock, exe, histVars, callVars>>

-----------------------------------------------------------------------------
(* Executor: the execution routine and Scheduler.ExecuteAssignedJobs *)

\* The for loop of ExecuteAssignedJobs moves to the next job id, or the call
\* returns.
ExecNext(e) ==
    IF Len(e.jobs) > 1
    THEN [e EXCEPT !.pc = "lock", !.jobs = Tail(@), !.job = ZeroJob, !.wake = 0]
    ELSE IdleExecutor(e.pod)

\* A tick up to the loop: currentPodID := leader.GetLeader() and the whole
\* sorted set.
ExecTick(k) ==
    /\ exe[k].pc = "wait"
    /\ \E t \in Clock(now) : \E currentPodID \in GetLeader(members, t) :
        LET jobs == ZRange(zset, 0, 0 - 1) IN
        IF jobs = <<>>
           THEN UNCHANGED <<now, exe>>
           ELSE /\ now' = t
                /\ exe' = [exe EXCEPT ![k] = [@ EXCEPT !.pc = "lock",
                                                        !.self = currentPodID,
                                                        !.jobs = jobs]]
    /\ UNCHANGED <<members, pod, storeVars, asg, histVars, callVars>>

\* SetNX on the job's lock key, the value being currentPodID.
ExecLock(k) ==
    LET e == exe[k]
        got == SetNX(lock, Head(e.jobs), e.self)
    IN
    /\ e.pc = "lock"
    /\ lock' = got.lock
    /\ exe' = [exe EXCEPT ![k] = IF got.acquired THEN [e EXCEPT !.pc = "get"]
                                 ELSE ExecNext(e)]
    /\ UNCHANGED <<now, members, pod, zset, detail, asg, histVars, callVars>>

\* Read the detail record; release the lock and go on when the job is not
\* found, not assigned to currentPodID, or running or success.
ExecGet(k) ==
    LET e == exe[k]
        jobID == Head(e.jobs)
        skip == IF jobID \notin DOMAIN detail THEN TRUE
                ELSE \/ detail[jobID].AssignedTo # e.self
                     \/ detail[jobID].Status = Running
                     \/ detail[jobID].Status = Success
    IN
    /\ e.pc = "get"
    /\ IF skip
       THEN /\ lock' = Del(lock, jobID)
            /\ exe' = [exe EXCEPT ![k] = ExecNext(e)]
       ELSE /\ lock' = lock
            /\ exe' = [exe EXCEPT ![k] = [e EXCEPT !.pc = "mark", !.job = detail[jobID]]]
    /\ UNCHANGED <<now, members, pod, zset, detail, asg, histVars, callVars>>

\* Mark the job running and store it; time.Sleep(5 * time.Second) begins.
ExecMark(k) ==
    LET e == exe[k]
        job == [e.job EXCEPT !.Status = Running]
        st == StoreInRedis(detail, zset, job)
    IN
    /\ e.pc = "mark"
    /\ detail' = st.detail
    /\ zset' = st.zset
    /\ \E t \in Clock(now) :
        /\ now' = t
        /\ exe' = [exe EXCEPT ![k] = [e EXCEPT !.pc = "sleep", !.job = job,
                                               !.wake = t + ExecutionSleep]]
    /\ runs' = [runs EXCEPT ![job.ID] = IF Len(@) < 2 THEN Append(@, job.AssignedTo) ELSE @]
    /\ UNCHANGED <<members, pod, lock, asg, callVars>>

\* The sleep is over: mark the job success and store it.
ExecFinish(k) ==
    LET e == exe[k]
        job == [e.job EXCEPT !.Status = Success]
        st == StoreInRedis(detail, zset, job)
    IN
    /\ e.pc = "sleep"
    /\ \E t \in Clock(e.wake) : now' = t
    /\ detail' = st.detail
    /\ zset' = st.zset
    /\ exe' = [exe EXCEPT ![k] = [e EXCEPT !.pc = "unlock", !.job = job]]
    /\ UNCHANGED <<members, pod, lock, asg, histVars, callVars>>

\* Release the lock after completion.
ExecUnlock(k) ==
    LET e == exe[k] IN
    /\ e.pc = "unlock"
    /\ lock' = Del(lock, Head(e.jobs))
    /\ exe' = [exe EXCEPT ![k] = ExecNext(e)]
    /\ UNCHANGED <<now, members, pod, zset, detail, asg, histVars, callVars>>

-----------------------------------------------------------------------------
(* The system *)

NoCall == [fn |-> "none"]

Init ==
    /\ now = 0
    /\ members = EmptyMap
    /\ pod = [p \in Pods |-> [st |-> "down", info |-> PodInfo(p, 0, 0), snap |-> EmptyMap]]
    /\ zset = EmptyMap
    /\ detail = EmptyMap
    /\ lock = EmptyMap
    /\ asg = <<>>
    /\ exe = <<>>
    /\ runs = [j \in AllJobIDs |-> <<>>]
    /\ arg = NoCall
    /\ res = NoCall

Next ==
    \/ \E p \in Pods : Initialize(p)
    \/ \E p \in Pods : updatePresence(p)
    \/ \E p \in Pods : registerPod(p)
    \/ \E p \in Pods : ScheduleJobs(p)
    \/ \E k \in DOMAIN asg : AssignTick(k)
    \/ \E k \in DOMAIN asg : AssignPods(k)
    \/ \E k \in DOMAIN asg : AssignGet(k)
    \/ \E k \in DOMAIN asg : AssignUnassign(k)
    \/ \E k \in DOMAIN asg : AssignPut(k)
    \/ \E k \in DOMAIN exe : ExecTick(k)
    \/ \E k \in DOMAIN exe : ExecLock(k)
    \/ \E k \in DOMAIN exe : ExecGet(k)
    \/ \E k \in DOMAIN exe : ExecMark(k)
    \/ \E k \in DOMAIN exe : ExecFinish(k)
    \/ \E k \in DOMAIN exe : ExecUnlock(k)

Spec == Init /\ [][Next]_vars

-----------------------------------------------------------------------------
(* Two leaders at once *)

\* The state of Spec in which both pods started in second 0, both registered,
\* and each ran ScheduleJobs once as leader (GetLeader names either pod while
\* their start times are equal): the job of the next full minute is stored and
\* each pod has started its assignment and its execution routine.  No routine
\* has ticked yet.  ScheduleJobs starts routines without any limit; Spec
\* reaches this state once MaxRoutines is 2.
InitSplitBrain ==
    LET st == StoreAll(EmptyMap, EmptyMap, JobsInWindow(0)) IN
    /\ now = 0
    /\ members = [p \in Pods |-> PodInfo(p, 0, 0)]
    /\ pod = [p \in Pods |-> [st |-> "up", info |-> PodInfo(p, 0, 0), snap |-> EmptyMap]]
    /\ zset = st.zset
    /\ detail = st.detail
    /\ lock = EmptyMap
    /\ asg = <<IdleAssigner("a"), IdleAssigner("b")>>
    /\ exe = <<IdleExecutor("a"), IdleExecutor("b")>>
    /\ runs = [j \in AllJobIDs |-> <<>>]
    /\ arg = NoCall
    /\ res = NoCall

\* From there on: the presence tickers and the four routines.  Both pods stay
\* in the members map, so AssignJobs never meets a job of an unlisted pod.
NextSplitBrain ==
    \/ \E p \in Pods : updatePresence(p)
    \/ \E p \in Pods : registerPod(p)
    \/ \E k \in DOMAIN asg : AssignTick(k)
    \/ \E k \in DOMAIN asg : AssignPods(k)
    \/ \E k \in DOMAIN asg : AssignGet(k)
    \/ \E k \in DOMAIN asg : AssignPut(k)
    \/ \E k \in DOMAIN exe : ExecTick(k)
    \/ \E k \in DOMAIN exe : ExecLock(k)
    \/ \E k \in DOMAIN exe : ExecGet(k)
    \/ \E k \in DOMAIN exe : ExecMark(k)
    \/ \E k \in DOMAIN exe : ExecFinish(k)
    \/ \E k \in DOMAIN exe : ExecUnlock(k)

SpecSplitBrain == InitSplitBrain /\ [][NextSplitBrain]_vars

-----------------------------------------------------------------------------
(* NewJob as a function of its inputs *)

\* Command ids that put the separator and digits next to the suffix, beside
\* the registry's own.
CommandIDs ==
    {CmdLs, <<"a">>, <<"a", "_">>, <<"a", "1">>, <<"a", "_", "1">>}

\* Instants: a second and a nanosecond part.
Instants == {[sec |-> s, nsec |-> n] : s \in 0..MaxUnix, n \in 0..1}

\* The rest of the system as constructed, untouched by a pure call.
Constructed ==
    /\ now = 0
    /\ members = EmptyMap
    /\ pod = [p \in Pods |-> [st |-> "down", info |-> PodInfo(p, 0, 0), snap |-> EmptyMap]]
    /\ zset = EmptyMap
    /\ detail = EmptyMap
    /\ lock = EmptyMap
    /\ asg = <<>>
    /\ exe = <<>>
    /\ runs = [j \in AllJobIDs |-> <<>>]

sysVars == <<now, members, pod, zset, detail, lock, asg, exe, runs>>

\* Two calls of NewJob, possibly on different pods, are about to be made.
InitJobId ==
    /\ Constructed
    /\ arg \in {[fn |-> "NewJob", c1 |-> c1, t1 |-> t1, c2 |-> c2, t2 |-> t2] :
                    c1 \in CommandIDs, t1 \in Instants,
                    c2 \in CommandIDs, t2 \in Instants}
    /\ res = NoCall

CallNewJob ==
    /\ arg.fn = "NewJob"
    /\ res = NoCall
    /\ res' = [fn |-> "NewJob",
               j1 |-> NewJob(arg.c1, arg.t1),
               j2 |-> NewJob(arg.c2, arg.t2)]
    /\ UNCHANGED <<sysVars, arg>>

SpecJobId == InitJobId /\ [][CallNewJob]_vars

\* Reading a decimal numeral back.
IsNumeral(s) == s # <<>> /\ \A n \in 1..Len(s) : \E d \in 1..10 : Digits[d] = s[n]
DigitValue(c) == (CHOOSE d \in 1..10 : Digits[d] = c) - 1
RECURSIVE ParseNat(_)
ParseNat(s) ==
    IF s = <<>> THEN 0
    ELSE 10 * ParseNat(SubSeq(s, 1, Len(s) - 1)) + DigitValue(s[Len(s)])

\* C10: the id NewJob builds is the command id, then "_", then the decimal
\* unix second of scheduled_at; two calls give the same id exactly when their
\* command ids and their scheduled seconds are the same.
C10_JobIdIsCommandAndSecond ==
    res.fn = "NewJob" =>
        LET id1 == res.j1.ID
            id2 == res.j2.ID
            n == Len(arg.c1)
        IN
        /\ Len(id1) >= n + 2
        /\ SubSeq(id1, 1, n) = arg.c1
        /\ id1[n + 1] = "_"
        /\ IsNumeral(SubSeq(id1, n + 2, Len(id1)))
        /\ ParseNat(SubSeq(id1, n + 2, Len(id1))) = arg.t1.sec
        /\ (id1 = id2) <=> (arg.c1 = arg.c2 /\ arg.t1.sec = arg.t2.sec)

\* Two calls with the same command id and second but different instants
\* were made and gave one id.
C10_Witness ==
    /\ res.fn = "NewJob"
    /\ arg.c1 = arg.c2
    /\ arg.t1.sec = arg.t2.sec
    /\ arg.t1 # arg.t2
    /\ res.j1.ID = res.j2.ID

-----------------------------------------------------------------------------
(* GetLeader as a function of the members map and the time of the read *)

\* Members maps the registry can hold: any of the pods, each started no later
\* than MaxStart and last seen at or after its start.
MemberMaps ==
    {EmptyMap} \cup
    UNION {{f \in [S -> [ID : S, StartTime : 0..MaxStart, LastSeen : 0..MaxStart,
                         Status : {"active"}]] :
                \A p \in S : f[p].ID = p /\ f[p].StartTime <= f[p].LastSeen} :
            S \in (SUBSET Pods) \ {{}}}

\* Every pod is about to compute the leader from one snapshot at one time.
InitLeader ==
    /\ Constructed
    /\ arg \in {[fn |-> "GetLeader", pods |-> m, now |-> t] :
                    m \in MemberMaps, t \in 0..(MaxStart + podTTL + 1)}
    /\ \A p \in DOMAIN arg.pods : arg.pods[p].LastSeen <= arg.now
    /\ res = NoCall

\* GetLeader and IsLeader on each pod.
CallGetLeader ==
    /\ arg.fn = "GetLeader"
    /\ res = NoCall
    /\ \E leaderID \in [Pods -> GetLeader(arg.pods, arg.now)] :
        res' = [fn |-> "GetLeader",
                leaderID |-> leaderID,
                isLeader |-> [p \in Pods |-> IsLeader(p, leaderID[p])]]
    /\ UNCHANGED <<sysVars, arg>>

SpecLeader == InitLeader /\ [][CallGetLeader]_vars

\* C8: GetLeader returns the live pod with the smallest start_time, the
\* lexicographically smallest id among those that share it, and "" exactly
\* when no pod is live.
C8_LeaderIsArgMin ==
    res.fn = "GetLeader" =>
        LET live == {p \in DOMAIN arg.pods : arg.now - arg.pods[p].LastSeen <= podTTL}
            first(p) == \A q \in live \ {p} :
                            \/ arg.pods[p].StartTime < arg.pods[q].StartTime
                            \/ /\ arg.pods[p].StartTime = arg.pods[q].StartTime
                               /\ PodRank(p) < PodRank(q)
        IN \A p \in Pods :
              IF live = {} THEN res.leaderID[p] = ""
              ELSE res.leaderID[p] \in live /\ first(res.leaderID[p])

\* C9: the pods that compute the leader from one snapshot at one time get one
\* leader id, and at most one of them finds itself leader.
C9_LeaderDeterministic ==
    res.fn = "GetLeader" =>
        /\ \A p, q \in Pods : res.leaderID[p] = res.leaderID[q]
        /\ Cardinality({p \in Pods : res.isLeader[p]}) <= 1

-----------------------------------------------------------------------------
(* Materializer ticks within one second *)

\* Members maps at second t: any of the pods, started no later than MaxStart
\* and last seen at its start or at a presence update since.
MembersAt(t) ==
    UNION {{f \in [S -> [ID : S, StartTime : 0..MaxStart, LastSeen : 0..t,
                         Status : {"active"}]] :
                \A p \in S :
                    /\ f[p].ID = p
                    /\ \/ f[p].LastSeen = f[p].StartTime
                       \/ f[p].LastSeen >= f[p].StartTime + HeartbeatInterval} :
            S \in (SUBSET Pods) \ {{}}}

\* What the store holds of the next job of each command when the pods come
\* up: nothing, or the record that earlier processes left, in any status they
\* write.
StoresAtRest ==
    {[detail |-> EmptyMap, zset |-> EmptyMap]} \cup
    {LET job == [NewJob(c.id, AtSecond(c.period)) EXCEPT
                    !.Status = sa[1], !.AssignedTo = sa[2]]
     IN [detail |-> Put(EmptyMap, job.ID, job),
         zset |-> Put(EmptyMap, job.ID, Unix(job.ScheduledAt))] :
        c \in Commands,
        sa \in ({<<Scheduled, "">>} \cup ({Assigned, Running, Success} \X Pods))}

\* The clock stands at MaxTime, so that every tick from here on falls in that
\* same second; the registered pods run no routine yet.
InitSameSecond ==
    /\ now = MaxTime
    /\ members \in MembersAt(MaxTime)
    /\ pod = [p \in Pods |->
                IF p \in DOMAIN members
                THEN [st |-> "up", info |-> members[p], snap |-> EmptyMap]
                ELSE [st |-> "down", info |-> PodInfo(p, 0, 0), snap |-> EmptyMap]]
    /\ \E st \in StoresAtRest : detail = st.detail /\ zset = st.zset
    /\ lock = EmptyMap
    /\ asg = <<>>
    /\ exe = <<>>
    /\ runs = [j \in AllJobIDs |-> <<>>]
    /\ arg = NoCall
    /\ res = NoCall

\* Everything that can happen without the clock moving: no pod starts and no
\* execution sleep ends.  No registered pod leaves the members map here, so
\* the assigner never finds a job of an unknown pod.
NextSameSecond ==
    \/ \E p \in Pods : updatePresence(p)
    \/ \E p \in Pods : registerPod(p)
    \/ \E p \in Pods : ScheduleJobs(p)
    \/ \E k \in DOMAIN asg : AssignTick(k)
    \/ \E k \in DOMAIN asg : AssignPods(k)
    \/ \E k \in DOMAIN asg : AssignGet(k)
    \/ \E k \in DOMAIN asg : AssignPut(k)
    \/ \E k \in DOMAIN exe : ExecTick(k)
    \/ \E k \in DOMAIN exe : ExecLock(k)
    \/ \E k \in DOMAIN exe : ExecGet(k)
    \/ \E k \in DOMAIN exe : ExecMark(k)

SpecSameSecond == InitSameSecond /\ [][NextSameSecond]_vars

\* A leader's materializer tick has completed in the second the clock stands
\* at: only such a tick starts routines.
TickedThisSecond == now = MaxTime /\ Len(asg) > 0

C12_RematerializeKeepsDetail ==
    [][(\E p \in Pods : ScheduleJobs(p)) =>
          \A j \in DOMAIN detail :
              /\ detail'[j].Status = detail[j].Status
              /\ detail'[j].AssignedTo = detail[j].AssignedTo]_vars

-----------------------------------------------------------------------------
(* One materializer tick as a function of the store and the time of the tick *)

\* The store before the tick: empty, or holding a job of an earlier tick that
\* an executor is running.
StoresBefore ==
    {[detail |-> EmptyMap, zset |-> EmptyMap]} \cup
    {LET job == [NewJob(c.id, AtSecond(c.period)) EXCEPT
                    !.Status = Running, !.AssignedTo = "a"]
     IN [detail |-> Put(EmptyMap, job.ID, job),
         zset |-> Put(EmptyMap, job.ID, Unix(job.ScheduledAt))] : c \in Commands}

\* The leader's tick is about to run its loop at second arg.now, over the
\* one command of the state machine or over the four minute commands.
InitWindow ==
    /\ Constructed
    /\ arg \in {[fn |-> "ScheduleJobs", cmds |-> cmds, now |-> t,
                 detail |-> st.detail, zset |-> st.zset] :
                    cmds \in {Commands, MinuteCommands}, t \in 0..MaxNow, st \in StoresBefore}
    /\ res = NoCall

\* The loop of ScheduleJobs over all commands, every StoreInRedis succeeding;
\* no occurrence is left out.
CallScheduleJobs ==
    /\ arg.fn = "ScheduleJobs"
    /\ res = NoCall
    /\ LET st == StoreAll(arg.detail, arg.zset,
                          JobsOf(arg.cmds, arg.now, arg.now + SchedulingWindow))
       IN res' = [fn |-> "ScheduleJobs", detail |-> st.detail, zset |-> st.zset]
    /\ UNCHANGED <<sysVars, arg>>

SpecWindow == InitWindow /\ [][CallScheduleJobs]_vars

\* The firing seconds of a cron period from second lo up to, not including,
\* second hi.
FiringSeconds(period, lo, hi) == {s \in lo..(hi - 1) : s % period = 0}

\* What a completed tick leaves for the firing seconds lo .. hi-1: each is a
\* member scored with its unix second, with a detail record that is
\* scheduled and unassigned, and whatever else the store holds was there
\* before the tick, unchanged.
WindowMaterialized(lo, hi) ==
    LET ids == UNION {{NewJobID(c.id, AtSecond(s)) :
                          s \in FiringSeconds(c.period, lo, hi)} : c \in arg.cmds}
    IN /\ \A c \in arg.cmds : \A s \in FiringSeconds(c.period, lo, hi) :
            LET id == NewJobID(c.id, AtSecond(s)) IN
            /\ id \in DOMAIN res.zset
            /\ res.zset[id] = s
            /\ id \in DOMAIN res.detail
            /\ res.detail[id].Status = Scheduled
            /\ res.detail[id].AssignedTo = ""
       /\ DOMAIN res.detail = DOMAIN res.zset
       /\ \A id \in DOMAIN res.zset \ ids :
            /\ id \in DOMAIN arg.zset
            /\ res.zset[id] = arg.zset[id]
            /\ res.detail[id] = arg.detail[id]

\* C20 as stated: after a leader's materializer tick at second now, every
\* cron firing time t with now <= t < now + SCHEDULING_WINDOW is a member of
\* scheduler:jobs with score t and has a scheduled, unassigned detail record,
\* and the tick creates no job outside that window.
C20_WindowFromNow ==
    res.fn = "ScheduleJobs" =>
        WindowMaterialized(arg.now, arg.now + SchedulingWindow)

\* C20: the same with the window starting strictly after now:
\* now < t < now + SCHEDULING_WINDOW.
C20_WindowAfterNow ==
    res.fn = "ScheduleJobs" =>
        WindowMaterialized(arg.now + 1, arg.now + SchedulingWindow)

\* A tick on a full minute has run: that minute is a firing time at now, and
\* the window holds the four later ones.
C20_Witness ==
    /\ res.fn = "ScheduleJobs"
    /\ arg.cmds = Commands
    /\ arg.now = LsPeriod
    /\ arg.zset = EmptyMap
    /\ Cardinality(DOMAIN res.zset) = 4

\* C22: once a leader's materializer tick has run, the store holds, for
\* every registered command, its next two occurrences after now as scheduled
\* jobs.
C22_NextTwoAreScheduled ==
    res.fn = "ScheduleJobs" =>
        \A c \in arg.cmds :
            LET first == CronNext(c.period, arg.now)
                second == CronNext(c.period, first)
            IN \A s \in {first, second} :
                 LET id == NewJobID(c.id, AtSecond(s)) IN
                 /\ id \in DOMAIN res.detail
                 /\ res.detail[id].Status = Scheduled

\* A tick over the minute commands has run and stored the next two
\* occurrences of ls.
C22_Witness ==
    /\ res.fn = "ScheduleJobs"
    /\ arg.cmds = MinuteCommands
    /\ \A c \in Commands :
         \A s \in {CronNext(c.period, arg.now),
                    CronNext(c.period, CronNext(c.period, arg.now))} :
            /\ NewJobID(c.id, AtSecond(s)) \in DOMAIN res.detail
            /\ res.detail[NewJobID(c.id, AtSecond(s))].Status = Scheduled

-----------------------------------------------------------------------------
(* One pod, after NEXT_JOB_COUNT jobs have completed *)

\* The occurrence of a command at second 0, completed by pod a: a job that
\* ran stays a member of scheduler:jobs with its scheduled second as score.
CompletedJobs ==
    {[NewJob(c.id, AtSecond(0)) EXCEPT !.Status = Success, !.AssignedTo = "a"] :
        c \in Commands}

\* The store holds the completed jobs and nothing else; pod a is about to
\* start and pod b never does.
InitOnePod ==
    /\ now = 0
    /\ members = EmptyMap
    /\ pod = [p \in Pods |-> [st |-> "down", info |-> PodInfo(p, 0, 0), snap |-> EmptyMap]]
    /\ LET st == StoreAll(EmptyMap, EmptyMap, CompletedJobs) IN
        /\ detail = st.detail
        /\ zset = st.zset
    /\ lock = EmptyMap
    /\ asg = <<>>
    /\ exe = <<>>
    /\ runs = [j \in AllJobIDs |-> <<>>]
    /\ arg = NoCall
    /\ res = NoCall

\* Pod a alone.  The assigner never gets past the completed job, and no
\* execution sleep ends before the clock stops.
NextOnePod ==
    \/ Initialize("a")
    \/ updatePresence("a")
    \/ registerPod("a")
    \/ ScheduleJobs("a")
    \/ \E k \in DOMAIN asg : AssignTick(k)
    \/ \E k \in DOMAIN asg : AssignPods(k)
    \/ \E k \in DOMAIN asg : AssignGet(k)
    \/ \E k \in DOMAIN exe : ExecTick(k)
    \/ \E k \in DOMAIN exe : ExecLock(k)
    \/ \E k \in DOMAIN exe : ExecGet(k)
    \/ \E k \in DOMAIN exe : ExecMark(k)

SpecOnePod == InitOnePod /\ [][NextOnePod]_vars

-----------------------------------------------------------------------------
(* The occurrences of a command in a window, by the loop and by the helper *)

\* Scheduler.getNextExecutionTimesInWindow: from currentTime = start, while
\* currentTime.Before(end) take nextTime = Next(currentTime), stop if
\* nextTime.After(end), else append it and go on from nextTime + 1 s.
RECURSIVE getNextExecutionTimesInWindow(_, _, _)
getNextExecutionTimesInWindow(period, currentTime, end) ==
    IF currentTime < end
    THEN LET nextTime == CronNext(period, currentTime) IN
         IF nextTime > end THEN <<>>
         ELSE <<nextTime>> \o getNextExecutionTimesInWindow(period, nextTime + 1, end)
    ELSE <<>>

\* Both are about to be run for one command over the window of a tick at
\* second arg.start.
InitTimes ==
    /\ Constructed
    /\ arg \in {[fn |-> "getNextExecutionTimesInWindow", cmd |-> c,
                 start |-> t, end |-> t + SchedulingWindow] :
                    c \in Commands, t \in 0..MaxNow}
    /\ res = NoCall

\* The helper's slice, and the firing times the loop of ScheduleJobs stores
\* jobs for.
CallTimes ==
    /\ arg.fn = "getNextExecutionTimesInWindow"
    /\ res = NoCall
    /\ res' = [fn |-> "getNextExecutionTimesInWindow",
               times |-> getNextExecutionTimesInWindow(arg.cmd.period, arg.start, arg.end),
               loop |-> Occurrences(arg.cmd.period, CronNext(arg.cmd.period, arg.start),
                                    arg.end, arg.end)]
    /\ UNCHANGED <<sysVars, arg>>

SpecTimes == InitTimes /\ [][CallTimes]_vars

\* C21: a firing time equal to the window end now + SCHEDULING_WINDOW is
\* left out, by the loop of ScheduleJobs and by
\* getNextExecutionTimesInWindow.
C21_WindowEndIsExcluded ==
    res.fn = "getNextExecutionTimesInWindow" =>
        /\ arg.end \notin res.loop
        /\ \A n \in 1..Len(res.times) : res.times[n] # arg.end

\* The window ends on a firing time; the loop leaves it out.
C21_Witness ==
    /\ res.fn = "getNextExecutionTimesInWindow"
    /\ arg.end % arg.cmd.period = 0
    /\ arg.end \notin res.loop
    /\ Len(res.times) > 0

-----------------------------------------------------------------------------
(* AssignJobs and UnassignJobsFromPod as functions of the store *)

\* What a call of AssignJobs has done so far: the store, whether the sorted
\* set was fetched, the detail keys read, and the assignments stored, in the
\* order of the loop (i is the loop index).
AssignStart(d, z) ==
    [err |-> FALSE, detail |-> d, zset |-> z, fetched |-> FALSE, reads |-> {},
     assigned |-> <<>>]

\* The loop of AssignJobs from index i on, every store access succeeding.
RECURSIVE AssignLoop(_, _, _, _)
AssignLoop(pods, jobs, i, st) ==
    IF i >= Len(jobs) THEN st
    ELSE LET jobID == jobs[i + 1]
             podID == pods[(i % Len(pods)) + 1]
             rd == [st EXCEPT !.reads = @ \cup {jobID}]
         IN IF jobID \notin DOMAIN st.detail THEN AssignLoop(pods, jobs, i + 1, rd)
            ELSE LET job == st.detail[jobID] IN
                 IF job.Status = Running THEN AssignLoop(pods, jobs, i + 1, rd)
                 ELSE IF job.AssignedTo # "" /\ job.AssignedTo \in Range(pods)
                      THEN AssignLoop(pods, jobs, i + 1, rd)
                      ELSE LET un == IF job.AssignedTo # ""
                                     THEN StoreInRedis(rd.detail, rd.zset,
                                              [job EXCEPT !.AssignedTo = "",
                                                          !.Status = Scheduled])
                                     ELSE [detail |-> rd.detail, zset |-> rd.zset]
                               w == StoreInRedis(un.detail, un.zset,
                                        [job EXCEPT !.AssignedTo = podID,
                                                    !.Status = Assigned])
                           IN AssignLoop(pods, jobs, i + 1,
                                  [rd EXCEPT !.detail = w.detail, !.zset = w.zset,
                                             !.assigned = Append(@,
                                                 [job |-> jobID, pod |-> podID, i |-> i])])

\* A variant that fetches the sorted set before it looks at the pod list.
AssignJobsFetchFirst(nextJobCount, pods, d, z) ==
    IF Len(pods) = 0
    THEN [AssignStart(d, z) EXCEPT !.err = TRUE, !.fetched = TRUE]
    ELSE AssignLoop(pods, ZRange(z, 0, jobCount(nextJobCount) - 1), 0,
                    [AssignStart(d, z) EXCEPT !.fetched = TRUE])

\* Scheduler.AssignJobs(ctx, pods) with NEXT_JOB_COUNT = nextJobCount.
AssignJobs(nextJobCount, pods, d, z) ==
    IF Len(pods) = 0
    THEN [AssignStart(d, z) EXCEPT !.err = TRUE]
    ELSE AssignLoop(pods, ZRange(z, 0, jobCount(nextJobCount) - 1), 0,
                    [AssignStart(d, z) EXCEPT !.fetched = TRUE])

\* Scheduler.UnassignJobsFromPod(ctx, podID): every job of the sorted set that
\* is assigned to podID and not running is stored scheduled and unassigned.
RECURSIVE UnassignLoop(_, _, _, _)
UnassignLoop(podID, jobs, i, st) ==
    IF i >= Len(jobs) THEN st
    ELSE LET jobID == jobs[i + 1] IN
         IF jobID \notin DOMAIN st.detail THEN UnassignLoop(podID, jobs, i + 1, st)
         ELSE LET job == st.detail[jobID] IN
              IF job.AssignedTo = podID /\ job.Status # Running
              THEN UnassignLoop(podID, jobs, i + 1,
                       StoreInRedis(st.detail, st.zset,
                           [job EXCEPT !.AssignedTo = "", !.Status = Scheduled]))
              ELSE UnassignLoop(podID, jobs, i + 1, st)

\* A variant whose loop resets the jobs of the pod with no look at their
\* status.
RECURSIVE UnassignAnyStatus(_, _, _)
UnassignAnyStatus(podID, d, z) ==
    IF \E id \in DOMAIN d : d[id].AssignedTo = podID
    THEN LET id == CHOOSE id \in DOMAIN d : d[id].AssignedTo = podID
             st == StoreInRedis(d, z, [d[id] EXCEPT !.AssignedTo = "",
                                                   !.Status = Scheduled])
         IN UnassignAnyStatus(podID, st.detail, st.zset)
    ELSE [detail |-> d, zset |-> z]

UnassignJobsFromPod(podID, d, z) ==
    UnassignLoop(podID, ZRange(z, 0, Cardinality(DOMAIN z) - 1), 0,
                 [detail |-> d, zset |-> z])

\* The jobs of one window of ls, and what a record of the store can say about
\* one of them: fresh, assigned to either pod, or taken up by pod a's
\* execution routine.
WindowJobs == JobsOf(Commands, 0, SchedulingWindow)

JobStates ==
    {[Status |-> Scheduled, AssignedTo |-> ""]} \cup
    {[Status |-> Assigned, AssignedTo |-> p] : p \in Pods} \cup
    {[Status |-> s, AssignedTo |-> "a"] : s \in {Running, Success}}

AssignStores ==
    {[detail |-> [id \in {j.ID : j \in WindowJobs} |->
                    LET job == CHOOSE j \in WindowJobs : j.ID = id
                    IN [job EXCEPT !.Status = f[job].Status,
                                   !.AssignedTo = f[job].AssignedTo]],
      zset |-> [id \in {j.ID : j \in WindowJobs} |->
                    Unix((CHOOSE j \in WindowJobs : j.ID = id).ScheduledAt)]] :
        f \in [WindowJobs -> JobStates]}

\* The pod slices the assignment routine can pass: any members, in any order.
PodLists == UNION {Orderings(S) : S \in SUBSET Pods}

InitAssign ==
    /\ Constructed
    /\ arg \in {[fn |-> "AssignJobs", nextJobCount |-> n, pods |-> pods,
                 detail |-> st.detail, zset |-> st.zset] :
                    n \in 0..MaxJobCount, pods \in PodLists, st \in AssignStores}
    /\ res = NoCall

CallAssignJobs ==
    /\ arg.fn = "AssignJobs"
    /\ res = NoCall
    /\ LET r == AssignJobs(arg.nextJobCount, arg.pods, arg.detail, arg.zset)
       IN res' = [fn |-> "AssignJobs", err |-> r.err, fetched |-> r.fetched,
                  reads |-> r.reads, assigned |-> r.assigned,
                  detail |-> r.detail, zset |-> r.zset]
    /\ UNCHANGED <<sysVars, arg>>

\* UnassignJobsFromPod on the store that AssignJobs left.
CallUnassignJobsFromPod ==
    /\ res.fn = "AssignJobs"
    /\ \E p \in Pods :
        LET st == UnassignJobsFromPod(p, res.detail, res.zset)
        IN res' = [fn |-> "UnassignJobsFromPod", pod |-> p,
                   assigned |-> res.assigned, before |-> res.detail,
                   detail |-> st.detail, zset |-> st.zset]
    /\ UNCHANGED <<sysVars, arg>>

NextAssign == CallAssignJobs \/ CallUnassignJobsFromPod

SpecAssign == InitAssign /\ [][NextAssign]_vars

\* C23: AssignJobs called with an empty pod list returns an error and has
\* neither fetched the pending set, nor read a job record, nor changed the
\* store.
C23_EmptyPodListTouchesNothing ==
    (res.fn = "AssignJobs" /\ arg.pods = <<>>) =>
        /\ res.err
        /\ ~res.fetched
        /\ res.reads = {}
        /\ res.detail = arg.detail
        /\ res.zset = arg.zset

\* AssignJobs has returned from a call with no pods, over a store that holds
\* a job it would otherwise have assigned.
C23_Witness ==
    /\ res.fn = "AssignJobs"
    /\ arg.pods = <<>>
    /\ res.err
    /\ \E id \in DOMAIN arg.detail : arg.detail[id].AssignedTo = ""

\* C24: assign, then unassign, is a round trip.  After AssignJobs and then
\* UnassignJobsFromPod(p), every job that the call assigned to p is scheduled
\* with no assignee, and every job that was not assigned to p, or was running,
\* is as UnassignJobsFromPod found it; the pending set is as it was.
C24_AssignUnassignRoundTrip ==
    res.fn = "UnassignJobsFromPod" =>
        /\ \A n \in 1..Len(res.assigned) :
             res.assigned[n].pod = res.pod =>
                /\ res.detail[res.assigned[n].job].Status = Scheduled
                /\ res.detail[res.assigned[n].job].AssignedTo = ""
        /\ DOMAIN res.detail = DOMAIN res.before
        /\ \A id \in DOMAIN res.before :
             (res.before[id].AssignedTo # res.pod \/ res.before[id].Status = Running)
                => res.detail[id] = res.before[id]
        /\ res.zset = arg.zset

\* AssignJobs assigned a job to p, and UnassignJobsFromPod(p) then ran over a
\* store that also held a running job of p and a job of the other pod.
C24_Witness ==
    /\ res.fn = "UnassignJobsFromPod"
    /\ \E n \in 1..Len(res.assigned) : res.assigned[n].pod = res.pod
    /\ \E id \in DOMAIN res.before :
         res.before[id].AssignedTo = res.pod /\ res.before[id].Status = Running
    /\ \E id \in DOMAIN res.before : res.before[id].AssignedTo \notin {"", res.pod}

\* C27: round robin over the assigned jobs.  The k-th job that one call of
\* AssignJobs assigns, k counted from 0 over the assigned jobs only, goes to
\* pods[k mod |pods|].
C27_RoundRobinOverAssigned ==
    res.fn = "AssignJobs" =>
        \A n \in 1..Len(res.assigned) :
            res.assigned[n].pod = arg.pods[((n - 1) % Len(arg.pods)) + 1]

\* One call assigned two jobs, to two different pods.
C27_Witness ==
    /\ res.fn = "AssignJobs"
    /\ Len(res.assigned) >= 2
    /\ res.assigned[1].pod # res.assigned[2].pod

\* One call of AssignJobs reads only the first jobCount members of the
\* pending set in score order and leaves every later job as it was.
AssignJobsStaysInPrefix ==
    res.fn = "AssignJobs" =>
        LET prefix == Range(ZRange(arg.zset, 0, jobCount(arg.nextJobCount) - 1)) IN
        /\ res.reads \subseteq prefix
        /\ \A id \in DOMAIN arg.detail \ prefix : res.detail[id] = arg.detail[id]
        /\ res.zset = arg.zset

-----------------------------------------------------------------------------
(* One job through the loop body of ExecuteAssignedJobs *)

\* The loop body of ExecuteAssignedJobs for one job id on pod currentPodID,
\* with no other writer in between.  commandFails says whether the job's
\* command would return an error; the body does not run the command (it
\* sleeps), so the outcome never enters the result.  storeFails names the
\* StoreInRedis call whose pipeline returns an error, if any ("running",
\* "success" or "none"); a failed pipeline has written nothing.  error is the
\* Error field of the record that is stored last.
ExecuteOne(currentPodID, d, z, l, jobID, commandFails, storeFails) ==
    LET got == SetNX(l, jobID, currentPodID)
        untouched == [detail |-> d, zset |-> z, lock |-> l, acquired |-> FALSE,
                      ran |-> FALSE, error |-> ""]
        skipped == [untouched EXCEPT !.lock = Del(got.lock, jobID), !.acquired = TRUE]
    IN IF ~got.acquired THEN untouched
       ELSE IF jobID \notin DOMAIN d THEN skipped
            ELSE LET job == d[jobID] IN
                 IF \/ job.AssignedTo # currentPodID
                    \/ job.Status = Running
                    \/ job.Status = Success
                 THEN skipped
                 ELSE IF storeFails = "running" THEN skipped
                 ELSE LET running == StoreInRedis(d, z, [job EXCEPT !.Status = Running])
                          done == StoreInRedis(running.detail, running.zset,
                                               [job EXCEPT !.Status = Success])
                      IN IF storeFails = "success"
                         THEN [detail |-> running.detail, zset |-> running.zset,
                               lock |-> Del(got.lock, jobID), acquired |-> TRUE,
                               ran |-> TRUE, error |-> ""]
                         ELSE [detail |-> done.detail, zset |-> done.zset,
                               lock |-> Del(got.lock, jobID), acquired |-> TRUE,
                               ran |-> TRUE, error |-> ""]

\* The lock keys before the call: none, or the job's key held by pod b.
LocksBefore(jobID) == {EmptyMap, Put(EmptyMap, jobID, "b")}

\* One iteration is about to run: on either pod, for any job of the window,
\* over any drawn store, with the job's record readable or missing.
InitExecute ==
    /\ Constructed
    /\ \E p \in Pods, j \in WindowJobs, f \in BOOLEAN, readable \in BOOLEAN,
          sf \in {"none", "running", "success"}, st \in AssignStores :
         \E l \in LocksBefore(j.ID) :
            arg = [fn |-> "ExecuteAssignedJobs", pod |-> p, job |-> j.ID, fails |-> f,
                   storeFails |-> sf,
                   detail |-> IF readable THEN st.detail ELSE Remove(st.detail, j.ID),
                   zset |-> st.zset, lock |-> l]
    /\ res = NoCall

CallExecuteOne ==
    /\ arg.fn = "ExecuteAssignedJobs"
    /\ res = NoCall
    /\ LET r == ExecuteOne(arg.pod, arg.detail, arg.zset, arg.lock, arg.job,
                           arg.fails, arg.storeFails)
       IN res' = [fn |-> "ExecuteAssignedJobs", acquired |-> r.acquired,
                  ran |-> r.ran, error |-> r.error,
                  detail |-> r.detail, zset |-> r.zset, lock |-> r.lock]
    /\ UNCHANGED <<sysVars, arg>>

SpecExecute == InitExecute /\ [][CallExecuteOne]_vars

C25_FailedRunIsRecorded ==
    (res.fn = "ExecuteAssignedJobs" /\ res.ran /\ arg.fails /\ arg.storeFails = "none") =>
        /\ res.detail[arg.job].Status = Failed
        /\ res.error # ""
        /\ arg.job \notin DOMAIN res.zset
        /\ arg.job \notin DOMAIN res.lock

\* A job whose command fails went through the loop body, and its lock is
\* released.
C25_Witness ==
    /\ res.fn = "ExecuteAssignedJobs"
    /\ res.ran
    /\ arg.fails
    /\ arg.storeFails = "none"
    /\ arg.job \notin DOMAIN res.lock

-----------------------------------------------------------------------------
(* The routines that the materializer ticks of one pod start *)

\* Pod a alone, with one routine pair more than the system above keeps: every
\* leader tick of ScheduleJobs runs its two go statements again.
NextRoutines ==
    \/ Initialize("a")
    \/ updatePresence("a")
    \/ registerPod("a")
    \/ ScheduleJobsUpTo("a", MaxRoutines + 1)
    \/ \E k \in DOMAIN asg : AssignTick(k)
    \/ \E k \in DOMAIN asg : AssignPods(k)
    \/ \E k \in DOMAIN asg : AssignGet(k)
    \/ \E k \in DOMAIN asg : AssignPut(k)
    \/ \E k \in DOMAIN exe : ExecTick(k)
    \/ \E k \in DOMAIN exe : ExecLock(k)
    \/ \E k \in DOMAIN exe : ExecGet(k)
    \/ \E k \in DOMAIN exe : ExecMark(k)
    \/ \E k \in DOMAIN exe : ExecFinish(k)
    \/ \E k \in DOMAIN exe : ExecUnlock(k)

SpecRoutines == Init /\ [][NextRoutines]_vars

\* C33: a pod runs at most one assignment routine and at most one execution
\* routine, so at most one AssignJobs call and one ExecuteAssignedJobs call of
\* a pod are in progress, however many materializer ticks have run.
C33_OneRoutinePairPerPod ==
    \A p \in Pods :
        /\ Cardinality({k \in DOMAIN asg : asg[k].pod = p}) <= 1
        /\ Cardinality({k \in DOMAIN exe : exe[k].pod = p}) <= 1

\* Two AssignJobs calls and two ExecuteAssignedJobs calls of one pod are in
\* progress at once.
C33_Witness ==
    \E p \in Pods :
        /\ Cardinality({k \in DOMAIN asg : asg[k].pod = p /\ asg[k].pc # "wait"}) = 2
        /\ Cardinality({k \in DOMAIN exe : exe[k].pod = p /\ exe[k].pc # "wait"}) = 2

-----------------------------------------------------------------------------
(* The storing loop of one materializer tick when store writes can fail *)

\* The inner loop of ScheduleJobs for one command, one iteration per step.
\* res.next is the loop variable next, res.logged counts the "Failed to store
\* job" lines (at most MaxFailures failing writes are drawn).
InitLoop ==
    /\ Constructed
    /\ \E c \in MinuteCommands, t \in 0..MaxNow :
         /\ arg = [fn |-> "ScheduleJobs", cmd |-> c, now |-> t,
                   endTime |-> t + SchedulingWindow]
         /\ res = [fn |-> "loop", next |-> CronNext(c.period, t),
                   detail |-> EmptyMap, zset |-> EmptyMap, logged |-> 0]

\* job.StoreInRedis succeeds: next = schedule.Next(next).
LoopStore ==
    /\ res.fn = "loop"
    /\ res.next < arg.endTime
    /\ LET st == StoreInRedis(res.detail, res.zset,
                              NewJob(arg.cmd.id, AtSecond(res.next)))
       IN res' = [res EXCEPT !.detail = st.detail, !.zset = st.zset,
                             !.next = CronNext(arg.cmd.period, @)]
    /\ UNCHANGED <<sysVars, arg>>

\* job.StoreInRedis returns an error: the error is logged and the loop
\* continues, with next as it was.
LoopStoreFails ==
    /\ res.fn = "loop"
    /\ res.next < arg.endTime
    /\ res.logged < MaxFailures
    /\ res' = [res EXCEPT !.logged = @ + 1]
    /\ UNCHANGED <<sysVars, arg>>

\* next.Before(endTime) is false: the loop is left and the tick returns.
LoopReturn ==
    /\ res.fn = "loop"
    /\ res.next >= arg.endTime
    /\ res' = [res EXCEPT !.fn = "returned"]
    /\ UNCHANGED <<sysVars, arg>>

NextLoop == LoopStore \/ LoopStoreFails \/ LoopReturn

SpecLoop == InitLoop /\ [][NextLoop]_vars

\* C34: a failed StoreInRedis for one firing time is logged and the tick moves
\* on to the next firing time.
C34_FailedStoreMovesOn ==
    [][LoopStoreFails => res'.next > res.next]_vars

\* A tick has returned after store writes failed.
C34_Witness ==
    /\ res.fn = "returned"
    /\ res.logged > 0

-----------------------------------------------------------------------------
(* Shutdown: main returns on SIGINT or SIGTERM *)

\* A routine that no longer runs: it went with its process.
Gone(r) == [r EXCEPT !.pc = "gone"]

\* A routine that lives on and comes back for its next tick.
BackToWait(r) == [r EXCEPT !.pc = "wait"]

\* The loop of a routine after the root context is cancelled and main has
\* returned: the select takes ctx.Done(), or the process exit ends it where it
\* stands.
StopRoutine(r) == Gone(r)

\* main receives the signal, logs and returns; the deferred cancel runs and
\* the process exits.  Nothing is written to the store.
Shutdown(p) ==
    /\ Started(p)
    /\ pod' = [pod EXCEPT ![p] = [@ EXCEPT !.st = "stopped"]]
    /\ asg' = [k \in DOMAIN asg |-> IF asg[k].pod = p THEN StopRoutine(asg[k]) ELSE asg[k]]
    /\ exe' = [k \in DOMAIN exe |-> IF exe[k].pod = p THEN StopRoutine(exe[k]) ELSE exe[k]]
    /\ UNCHANGED <<now, members, storeVars, histVars, callVars>>

\* Pod a with its loops and routines, and its shutdown at any moment.
NextShutdown ==
    \/ Initialize("a")
    \/ updatePresence("a")
    \/ registerPod("a")
    \/ ScheduleJobs("a")
    \/ \E k \in DOMAIN asg : AssignTick(k)
    \/ \E k \in DOMAIN asg : AssignPods(k)
    \/ \E k \in DOMAIN asg : AssignGet(k)
    \/ \E k \in DOMAIN asg : AssignPut(k)
    \/ \E k \in DOMAIN exe : ExecTick(k)
    \/ \E k \in DOMAIN exe : ExecLock(k)
    \/ \E k \in DOMAIN exe : ExecGet(k)
    \/ \E k \in DOMAIN exe : ExecMark(k)
    \/ \E k \in DOMAIN exe : ExecFinish(k)
    \/ \E k \in DOMAIN exe : ExecUnlock(k)
    \/ Shutdown("a")

SpecShutdown == Init /\ [][NextShutdown]_vars

\* C35: after shutdown the pod's heartbeat loop, scheduling loop and every
\* assignment and execution routine of the pod take no further step, and the
\* shutdown itself changes no job record, pending set or lock: a job that is
\* running stays as it is.
C35_ShutdownStopsLoops ==
    [][\A p \in Pods :
         /\ pod[p].st = "stopped" =>
                /\ pod'[p] = pod[p]
                /\ Len(asg') >= Len(asg) /\ Len(exe') >= Len(exe)
                /\ \A k \in DOMAIN asg : asg[k].pod = p => asg'[k] = asg[k]
                /\ \A k \in DOMAIN exe : exe[k].pod = p => exe'[k] = exe[k]
         /\ (pod[p].st # "stopped" /\ pod'[p].st = "stopped") =>
                UNCHANGED <<detail, zset, lock, members>>]_vars

\* A pod was shut down while its execution routine slept in a job: the job is
\* still running, its lock is still held, and the routine is gone.
C35_Witness ==
    \E p \in Pods : \E k \in DOMAIN exe : \E j \in DOMAIN detail :
        /\ pod[p].st = "stopped"
        /\ exe[k].pod = p
        /\ exe[k].pc = "gone"
        /\ exe[k].job.ID = j
        /\ detail[j].Status = Running
        /\ j \in DOMAIN lock

-----------------------------------------------------------------------------
(* A lock that expires, and a pod that dies while it executes a job *)

\* The store removes a lock key when the expiry given to SetNX
\* (10 * time.Minute) has run out.  The seconds of the model stop at MaxTime:
\* the step stands for the holder having been stalled, or dead, that long.
Expire(jobID) ==
    /\ jobID \in DOMAIN lock
    /\ lock' = Remove(lock, jobID)
    /\ UNCHANGED <<now, members, pod, zset, detail, asg, exe, histVars, callVars>>

\* Both pods with their routines, as after two leader ticks, over the seconds
\* up to the next presence tick (the presence ticker has a period of
\* HeartbeatInterval).  A pod can die at any moment: its routines stop where
\* they stand and nothing is written, as when main returns.  A lock can expire
\* at any moment.
NextExpiry ==
    \/ \E k \in DOMAIN asg : AssignTick(k)
    \/ \E k \in DOMAIN asg : AssignPods(k)
    \/ \E k \in DOMAIN asg : AssignGet(k)
    \/ \E k \in DOMAIN asg : AssignPut(k)
    \/ \E k \in DOMAIN exe : ExecTick(k)
    \/ \E k \in DOMAIN exe : ExecLock(k)
    \/ \E k \in DOMAIN exe : ExecGet(k)
    \/ \E k \in DOMAIN exe : ExecMark(k)
    \/ \E k \in DOMAIN exe : ExecFinish(k)
    \/ \E k \in DOMAIN exe : ExecUnlock(k)
    \/ \E p \in Pods : Shutdown(p)
    \/ \E jobID \in DOMAIN lock : Expire(jobID)

SpecExpiry == InitSplitBrain /\ [][NextExpiry]_vars

-----------------------------------------------------------------------------
(* The leader query of the PodManager that keeps an is_leader flag *)

\* An entry of the members map with the is_leader field of this PodManager.
FlagInfo(id, startTime, lastSeen, isLeader) ==
    [ID |-> id, StartTime |-> startTime, LastSeen |-> lastSeen,
     Status |-> "active", IsLeader |-> isLeader]

\* cleanupDeadPods of this PodManager: keep the pods seen within its podTTL.
cleanupDeadPodsFlag(pods, t) ==
    [p \in {q \in DOMAIN pods : t - pods[q].LastSeen <= podTTLFlag} |-> pods[p]]

\* The seconds of a leader query: long enough for an entry to grow older
\* than podTTLFlag.
LeaderClock(t) == {u \in now..(MaxStart + podTTLFlag + 1) : u >= t}

\* Both pods are registered, each at its start, and no leader query has run.
InitLeaderFlag ==
    /\ \E sa, sb \in 0..MaxStart :
        /\ now = IF sa > sb THEN sa ELSE sb
        /\ members = [p \in Pods |->
                        FlagInfo(p, IF p = "a" THEN sa ELSE sb,
                                    IF p = "a" THEN sa ELSE sb, FALSE)]
        /\ pod = [p \in Pods |->
                    [st |-> "up",
                     info |-> PodInfo(p, IF p = "a" THEN sa ELSE sb,
                                         IF p = "a" THEN sa ELSE sb),
                     snap |-> EmptyMap]]
    /\ zset = EmptyMap
    /\ detail = EmptyMap
    /\ lock = EmptyMap
    /\ asg = <<>>
    /\ exe = <<>>
    /\ runs = [j \in AllJobIDs |-> <<>>]
    /\ arg = NoCall
    /\ res = NoCall

\* updatePresence with its registerPod, on the presence ticker: last_seen is
\* set from the clock and the pod's entry, written without the flag, goes
\* into the stored map.
updatePresenceFlag(p) ==
    /\ pod[p].st = "up"
    /\ \E t \in LeaderClock(pod[p].info.LastSeen + HeartbeatInterval) :
        /\ now' = t
        /\ pod' = [pod EXCEPT ![p].info.LastSeen = t]
        /\ members' = Put(members, p, FlagInfo(p, pod[p].info.StartTime, t, FALSE))
    /\ UNCHANGED <<storeVars, asg, exe, histVars, callVars>>

\* GetLeader as the PodManager with podTTL of 2 s has it, and its IsLeader:
\* the map is read and nothing is written.
GetLeaderReadOnly(p) ==
    /\ pod[p].st = "up"
    /\ \E t \in LeaderClock(now) : \E leaderID \in GetLeader(members, t) :
        /\ now' = t
        /\ res' = [fn |-> "GetLeader", pod |-> p, leaderID |-> leaderID,
                   isLeader |-> IsLeader(p, leaderID)]
    /\ UNCHANGED <<members, pod, storeVars, asg, exe, histVars, arg>>

\* GetLeader of the flag variant up to its write: getPods.
GetLeaderGetPods(p) ==
    /\ pod[p].st = "up"
    /\ pod' = [pod EXCEPT ![p] = [@ EXCEPT !.st = "leading", !.snap = members]]
    /\ UNCHANGED <<now, members, storeVars, asg, exe, histVars, callVars>>

\* The rest of it: the copy is pruned, the first pod by start_time becomes
\* the leader, every entry of the copy gets its flag, and the copy is stored.
\* With no live pod it returns "" before the write.
GetLeaderSetFlags(p) ==
    /\ pod[p].st = "leading"
    /\ \E t \in LeaderClock(now) :
        LET pods == cleanupDeadPodsFlag(pod[p].snap, t) IN
        /\ now' = t
        /\ IF DOMAIN pods = {}
           THEN /\ members' = members
                /\ res' = [fn |-> "GetLeader", pod |-> p, leaderID |-> "",
                           isLeader |-> FALSE]
           ELSE \E leaderID \in {q \in DOMAIN pods :
                                   \A r \in DOMAIN pods :
                                      ~(pods[r].StartTime < pods[q].StartTime)} :
                  /\ members' = [q \in DOMAIN pods |->
                                    [pods[q] EXCEPT !.IsLeader = (q = leaderID)]]
                  /\ res' = [fn |-> "GetLeader", pod |-> p, leaderID |-> leaderID,
                             isLeader |-> (p = leaderID)]
    /\ pod' = [pod EXCEPT ![p] = [@ EXCEPT !.st = "up", !.snap = EmptyMap]]
    /\ UNCHANGED <<storeVars, asg, exe, histVars, arg>>

\* IsLeader of the flag variant: the flag of the pod's stored entry.
IsLeaderFlag(p) ==
    /\ pod[p].st = "up"
    /\ res' = [fn |-> "IsLeader", pod |-> p, leaderID |-> "",
               isLeader |-> IF p \in DOMAIN members THEN members[p].IsLeader ELSE FALSE]
    /\ UNCHANGED <<sysVars, arg>>

\* A leader query of either PodManager.
LeaderQuery(p) ==
    \/ GetLeaderReadOnly(p)
    \/ GetLeaderGetPods(p)
    \/ GetLeaderSetFlags(p)
    \/ IsLeaderFlag(p)

NextLeaderFlag ==
    \/ \E p \in Pods : updatePresenceFlag(p)
    \/ \E p \in Pods : GetLeaderReadOnly(p)
    \/ \E p \in Pods : GetLeaderGetPods(p)
    \/ \E p \in Pods : GetLeaderSetFlags(p)
    \/ \E p \in Pods : IsLeaderFlag(p)

SpecLeaderFlag == InitLeaderFlag /\ [][NextLeaderFlag]_vars

-----------------------------------------------------------------------------
(* Properties of execution *)

\* C1: every job id is marked running at most once (no pod crashes and no
\* lock outlives its TTL within MaxTime).
C1_AtMostOnce == \A j \in AllJobIDs : Len(runs[j]) <= 1

\* A single pod, the other never started, has marked one job running twice.
C1_Witness == pod["b"].st = "down" /\ \E j \in AllJobIDs : Len(runs[j]) = 2

\* C2: per job at most one execution routine is between marking it running
\* and releasing its lock; and a routine whose SetNX on the job's lock fails
\* goes on to the next job id, leaving the job's detail record, the sorted
\* set, the lock and the run count as they were and holding no copy of the job.
C2_SingleFlight ==
    /\ [](\A j \in AllJobIDs :
            Cardinality({k \in DOMAIN exe : /\ exe[k].pc \in {"sleep", "unlock"}
                                            /\ Head(exe[k].jobs) = j}) <= 1)
    /\ [][\A k \in DOMAIN exe :
            (/\ exe[k].pc = "lock"
             /\ Head(exe[k].jobs) \in DOMAIN lock
             /\ exe'[k] # exe[k])
            => /\ UNCHANGED <<detail, zset, lock, runs>>
               /\ exe'[k] = ExecNext(exe[k])
               /\ exe'[k].job = ZeroJob]_vars

\* One routine sleeps on a job while another is about to try the same lock.
C2_Witness ==
    \E k1, k2 \in DOMAIN exe :
        /\ k1 # k2
        /\ exe[k1].pc = "sleep"
        /\ exe[k2].pc = "lock"
        /\ Head(exe[k2].jobs) = Head(exe[k1].jobs)
        /\ Head(exe[k1].jobs) \in DOMAIN lock

\* C3: with both pods acting as leader, no job is run once as the job of
\* one pod and once more as the job of the other: the assignments of the two
\* assigners lead to one execution.
C3_SplitBrainRunsOnce ==
    \A j \in AllJobIDs :
        ~(\E m, n \in DOMAIN runs[j] :
            runs[j][m] \in Pods /\ runs[j][n] \in Pods /\ runs[j][m] # runs[j][n])

\* C4: a job that a pod's execution routine has marked running is assigned to
\* that pod.
C4_RunsOwnJobsOnly ==
    \A k \in DOMAIN exe :
        exe[k].pc = "sleep" => exe[k].job.AssignedTo = exe[k].pod

\* A pod's execution routine runs a job that is assigned to the other pod.
C4_Witness ==
    \E k \in DOMAIN exe :
        /\ exe[k].pc = "sleep"
        /\ exe[k].job.AssignedTo \in Pods \ {exe[k].pod}

\* C5: a job is marked running no earlier than its scheduled_at.
C5_NotBeforeScheduledAt ==
    \A k \in DOMAIN exe :
        exe[k].pc = "sleep" =>
            exe[k].wake - ExecutionSleep >= Unix(exe[k].job.ScheduledAt)

\* C6: the members of the sorted set are exactly the jobs whose detail record
\* is scheduled, assigned or running; none is success or failed.
C6_PendingSetHoldsNoTerminalJob ==
    \A j \in DOMAIN detail :
        j \in DOMAIN zset <=> detail[j].Status \in {Scheduled, Assigned, Running}

\* C7: a job whose detail record is running has its lock key set, to the id
\* of the one pod whose execution routine is running it.
C7_RunningJobLockedByExecutingPod ==
    \A j \in DOMAIN detail :
        detail[j].Status = Running =>
            /\ j \in DOMAIN lock
            /\ \E k \in DOMAIN exe :
                /\ exe[k].pc = "sleep"
                /\ Head(exe[k].jobs) = j
                /\ lock[j] = exe[k].pod
                /\ \A m \in DOMAIN exe :
                    (exe[m].pc = "sleep" /\ Head(exe[m].jobs) = j) => m = k

\* A pod's execution routine runs a job under a lock that names the other pod.
C7_Witness ==
    \E k \in DOMAIN exe :
        /\ exe[k].pc = "sleep"
        /\ Head(exe[k].jobs) \in DOMAIN lock
        /\ lock[Head(exe[k].jobs)] \in Pods \ {exe[k].pod}


\* The steps of the job state machine: scheduled -> assigned -> running ->
\* success | failed, and back from assigned to scheduled.
StatusStep(from, to) ==
    \/ to = from
    \/ from = Scheduled /\ to = Assigned
    \/ from = Assigned /\ to \in {Running, Scheduled}
    \/ from = Running /\ to \in {Success, Failed}

\* C13: the status stored for a job only moves scheduled -> assigned ->
\* running -> (success | failed) or back from assigned to scheduled, and a
\* status of success or failed never changes again.
C13_StatusIsLinear ==
    [][\A j \in DOMAIN detail : StatusStep(detail[j].Status, detail'[j].Status)]_vars

\* The jobs AssignJobs reads: the first NEXT_JOB_COUNT members by score.
AssignerRange == Range(ZRange(zset, 0, JobCount - 1))

\* C14: with one pod, every job the materializer creates is eventually
\* assigned to that pod and reaches success, however many jobs have
\* completed.  AssignJobs is the only writer of assigned_to and completed
\* jobs never leave scheduler:jobs, so this needs at every moment that a
\* scheduled, unassigned job is among the jobs AssignJobs reads, or that a job
\* it reads is not complete yet.
C14_PendingJobReachesAssigner ==
    \A j \in DOMAIN zset :
        (j \in DOMAIN detail /\ detail[j].Status = Scheduled /\ detail[j].AssignedTo = "")
            => \/ j \in AssignerRange
               \/ \E i \in AssignerRange :
                    i \notin DOMAIN detail \/ detail[i].Status \notin {Success, Failed}

\* C15: a job assigned to a live pod that is not, and never was, the leader
\* is eventually marked running and brought to success by that pod.  Only a
\* pod's own execution routine runs jobs in its name, so this needs that
\* every live pod that holds an assigned job has an execution routine.
C15_AssigneeHasExecutionRoutine ==
    \A j \in DOMAIN detail :
        LET p == detail[j].AssignedTo IN
        (/\ detail[j].Status = Assigned
         /\ p \in Pods
         /\ Started(p)
         /\ p \in DOMAIN cleanupDeadPods(members, now)
         /\ p \notin GetLeader(members, now))
            => \E k \in DOMAIN exe : exe[k].pod = p

\* The pods of the members map that a read at second t finds live.
LivePods(t) == DOMAIN cleanupDeadPods(members, t)

\* C16: when job j is assigned to a pod that has not been seen for longer
\* than POD_TTL and has not started j, the leader's assigner tick that reads j
\* clears the assignment (and goes on to assign j again).
C16_OrphanIsReclaimed ==
    [][\A k \in DOMAIN asg :
          (/\ AssignGet(k)
           /\ asg[k].jobs[asg[k].i + 1] \in DOMAIN detail
           /\ LET job == detail[asg[k].jobs[asg[k].i + 1]] IN
                /\ job.Status = Assigned
                /\ job.AssignedTo \in DOMAIN members
                /\ job.AssignedTo \notin LivePods(now))
              => asg'[k].pc = "unassign"]_vars

\* The leader's assigner is about to read a job whose assignee, registered
\* and idle, was last seen more than POD_TTL ago, while the leader is live.
C16_Witness ==
    \E k \in DOMAIN asg :
        /\ asg[k].pc = "get"
        /\ asg[k].pod \in LivePods(now)
        /\ asg[k].jobs[asg[k].i + 1] \in DOMAIN detail
        /\ LET job == detail[asg[k].jobs[asg[k].i + 1]] IN
             /\ job.Status = Assigned
             /\ job.AssignedTo \in (DOMAIN members) \ LivePods(now)
             /\ job.AssignedTo \in Range(asg[k].pods)
             /\ pod[job.AssignedTo].st = "up"

\* C17: the pod id the assigner writes into assigned_to is that of a pod that
\* is live, now - last_seen <= POD_TTL, at the moment of the write.
C17_AssigneeIsLive ==
    [][\A k \in DOMAIN asg :
          AssignPut(k) =>
              asg[k].pods[(asg[k].i % Len(asg[k].pods)) + 1] \in LivePods(now)]_vars

\* The leader's assigner, itself live, is about to write the id of a
\* registered, idle pod that was last seen more than POD_TTL ago.
C17_Witness ==
    \E k \in DOMAIN asg :
        /\ asg[k].pc = "put"
        /\ asg[k].pod \in LivePods(now)
        /\ LET podID == asg[k].pods[(asg[k].i % Len(asg[k].pods)) + 1] IN
             /\ podID \in (DOMAIN members) \ LivePods(now)
             /\ pod[podID].st = "up"

\* C18: at every time, a pod whose presence loop runs and whose last update
\* is no older than the heartbeat interval is in the live set that
\* cleanupDeadPods and GetLeader compute from the members map.
C18_HeartbeatingPodIsLive ==
    \A p \in Pods :
        (/\ pod[p].st = "up"
         /\ p \in DOMAIN members
         /\ members[p] = pod[p].info
         /\ now <= members[p].LastSeen + HeartbeatInterval)
            => p \in LivePods(now)

\* Between two presence updates: a registered pod whose entry is as it
\* wrote it is within its heartbeat interval and beyond POD_TTL, while the
\* other pod is live.
C18_Witness ==
    \E p \in Pods :
        /\ pod[p].st = "up"
        /\ p \in DOMAIN members
        /\ members[p] = pod[p].info
        /\ now = members[p].LastSeen + podTTL + 1
        /\ now < members[p].LastSeen + HeartbeatInterval
        /\ LivePods(now) = Pods \ {p}

\* Pod b has taken over: a materializer tick of b passed the leader check
\* (only such a tick starts b's routines).
TookOver(b) == \E k \in DOMAIN asg : asg[k].pod = b

C26_HeartbeatPrunesStoredMap ==
    [][\A p \in Pods :
         (registerPod(p) /\ pod[p].st = "beating" /\ pod[p].snap = members) =>
            /\ p \in DOMAIN members'
            /\ members'[p].LastSeen = pod[p].info.LastSeen
            /\ \A q \in DOMAIN members' :
                 pod[p].info.LastSeen - members'[q].LastSeen <= podTTL]_vars

\* A heartbeat of some pod has completed: its stored last_seen is later than
\* its start time.
C26_Witness ==
    \E p \in Pods :
        /\ pod[p].st = "up"
        /\ p \in DOMAIN members
        /\ members[p].LastSeen > members[p].StartTime
        /\ members[p].LastSeen = pod[p].info.LastSeen

\* C28: the assigner never writes over a job that is running or finished,
\* nor over one that is assigned to a pod of its list.  At every store of an
\* assignment routine, the record then in the store is neither running nor
\* success and names no pod of the routine's pod list.
C28_AssignerWritesOnlyFreeJobs ==
    [][\A k \in DOMAIN asg :
         (AssignUnassign(k) \/ AssignPut(k)) =>
            LET id == asg[k].job.ID IN
            id \in DOMAIN detail =>
                /\ detail[id].Status \notin {Running, Success}
                /\ detail[id].AssignedTo \notin Range(asg[k].pods)]_vars

\* A job is stored as assigned while an execution routine is inside its loop.
C28_Witness ==
    /\ \E id \in DOMAIN detail : detail[id].Status = Assigned
    /\ \E k \in DOMAIN exe : exe[k].pc # "wait"

\* C29: an assigner tick works on the first NEXT_JOB_COUNT members of
\* scheduler:jobs only, and every pending job enters that prefix eventually.
\* No member ever leaves scheduler:jobs and later jobs have later scores, so
\* a job that is behind the prefix stays behind it: the claim needs that the
\* routine never holds more than jobCount ids and that every scheduled,
\* unassigned member is inside the prefix.
C29_PendingJobIsInPrefix ==
    /\ \A k \in DOMAIN asg : Len(asg[k].jobs) <= JobCount
    /\ \A j \in DOMAIN zset \cap DOMAIN detail :
         (detail[j].Status = Scheduled /\ detail[j].AssignedTo = "")
            => j \in AssignerRange

\* An assigner tick has fetched its prefix while a scheduled, unassigned job
\* is pending.
C29_Witness ==
    /\ \E k \in DOMAIN asg : asg[k].pc = "get" /\ Len(asg[k].jobs) = JobCount
    /\ \E j \in DOMAIN zset \cap DOMAIN detail :
         detail[j].Status = Scheduled /\ detail[j].AssignedTo = ""

\* C30: materializer and assigner are leader-only.  A tick of ScheduleJobs
\* on a pod that the leader computation of that tick does not name writes no
\* job record, adds no member to scheduler:jobs and starts no routine; a tick
\* of an assignment routine on such a pod writes nothing and goes back to
\* waiting.
C30_TicksAreLeaderOnly ==
    [][/\ \A p \in Pods :
            (ScheduleJobs(p) /\ p \notin GetLeader(members, now'))
                => UNCHANGED <<detail, zset, asg, exe>>
       /\ \A k \in DOMAIN asg :
            (AssignTick(k) /\ asg[k].pod \notin GetLeader(members, now'))
                => /\ UNCHANGED <<detail, zset, exe>>
                   /\ Len(asg') = Len(asg)
                   /\ asg'[k].pc = "wait"]_vars

\* Two pods are up and ticking at a moment when only one of them is the
\* leader; the other one owns an assignment routine, and the store holds
\* jobs.
C30_Witness ==
    \E p \in Pods :
        /\ Started(p)
        /\ p \notin GetLeader(members, now)
        /\ GetLeader(members, now) # {""}
        /\ \E k \in DOMAIN asg : asg[k].pod = p /\ asg[k].pc = "wait"
        /\ DOMAIN zset # {}

\* Every skip that ExecuteAssignedJobs takes after it acquired the lock
\* leaves the detail records and the pending set as they are and releases
\* the lock.
SkipKeepsStoreAndUnlocks ==
    [][\A k \in DOMAIN exe :
         (ExecGet(k) /\ exe'[k].pc # "mark") =>
            /\ UNCHANGED <<detail, zset>>
            /\ Head(exe[k].jobs) \notin DOMAIN lock']_vars

\* C31: the executor's skip path.  When an execution routine holds job j's
\* lock and reads a record that is missing, not assigned to its pod, running
\* or success, it leaves j's detail record and the pending set unchanged and
\* releases the lock.
C31_SkipPathIsAFrame ==
    [][\A k \in DOMAIN exe :
         LET j == Head(exe[k].jobs) IN
         (/\ ExecGet(k)
          /\ \/ j \notin DOMAIN detail
             \/ detail[j].AssignedTo # exe[k].pod
             \/ detail[j].Status \in {Running, Success})
         => /\ UNCHANGED <<detail, zset>>
            /\ j \notin DOMAIN lock']_vars

\* An execution routine that took itself for currentPodID holds the lock of a
\* job that is assigned to the other pod: its next step is the skip.
C31_Witness ==
    \E k \in DOMAIN exe :
        LET j == Head(exe[k].jobs) IN
        /\ exe[k].pc = "get"
        /\ exe[k].self = exe[k].pod
        /\ j \in DOMAIN detail
        /\ detail[j].AssignedTo \in Pods \ {exe[k].pod}
        /\ j \in DOMAIN lock

\* C36: lost updates on the members map only delay a heartbeat.  A pod that
\* is registered, has completed a heartbeat since and is between two
\* heartbeats is in the stored map, and the last_seen stored for it is at
\* most one heartbeat interval older than its latest heartbeat.
C36_HeartbeatingPodStaysInMap ==
    \A p \in Pods :
        (pod[p].st = "up" /\ pod[p].info.LastSeen > pod[p].info.StartTime) =>
            /\ p \in DOMAIN members
            /\ members[p].LastSeen >= pod[p].info.LastSeen - HeartbeatInterval

\* Both pods have completed a heartbeat, and the write of one of them has
\* dropped the other from the stored map.
C36_Witness ==
    /\ \A p \in Pods :
         pod[p].st = "up" /\ pod[p].info.LastSeen > pod[p].info.StartTime
    /\ \E p \in Pods : p \notin DOMAIN members

\* Job j was marked running by an execution routine whose pod then died in
\* the sleep, the lock on j has expired, and no routine that lives holds j in
\* the middle of an iteration.
DiedRunning(jobID) ==
    /\ jobID \in DOMAIN detail
    /\ detail[jobID].Status = Running
    /\ jobID \notin DOMAIN lock
    /\ \E k \in DOMAIN exe :
         /\ exe[k].pc = "gone"
         /\ exe[k].job.ID = jobID
         /\ exe[k].job.Status = Running
    /\ \A k \in DOMAIN exe :
         (exe[k].pc \in {"get", "mark", "sleep", "unlock"}) => Head(exe[k].jobs) # jobID
    /\ \A k \in DOMAIN asg :
         (asg[k].pc \in {"unassign", "put"}) => asg[k].job.ID # jobID

\* Once a job is in that state no step changes its record or runs it: the
\* assigner passes over a running job and every executor skips it.
DiedRunningStaysRunning ==
    [][\A jobID \in AllJobIDs :
          DiedRunning(jobID) =>
              /\ detail'[jobID] = detail[jobID]
              /\ runs'[jobID] = runs[jobID]
              /\ \A k \in DOMAIN exe :
                   (exe'[k].pc \in {"mark", "sleep", "unlock"}) => Head(exe'[k].jobs) # jobID
              /\ \A k \in DOMAIN asg :
                   (asg'[k].pc \in {"unassign", "put"}) => asg'[k].job.ID # jobID]_vars

\* C37: a job whose executor died holding the lock is run again once the lock
\* has expired: the assigner of a live leader that reads the job goes on to
\* assign it again.
C37_DiedRunningIsReassigned ==
    [][\A k \in DOMAIN asg :
          (/\ AssignGet(k)
           /\ asg[k].pod \in LivePods(now)
           /\ asg[k].pod \in GetLeader(members, now)
           /\ DiedRunning(asg[k].jobs[asg[k].i + 1]))
              => asg'[k].pc \in {"unassign", "put"}]_vars

\* The assigner of the live leader is about to read a job that was left
\* running by a pod that died, with the lock expired.
C37_Witness ==
    \E k \in DOMAIN asg :
        /\ asg[k].pc = "get"
        /\ asg[k].pod \in LivePods(now)
        /\ asg[k].pod \in GetLeader(members, now)
        /\ pod[asg[k].pod].st = "up"
        /\ DiedRunning(asg[k].jobs[asg[k].i + 1])

\* C38: a pod deletes a job lock only while the lock is its own: when the
\* lock of an execution routine has expired and another routine has taken
\* the lock of the same job with another value, the first routine's release
\* (at the end of its execution or on a skip) leaves that lock in place.
C38_DeleteOnlyOwnLock ==
    [][\A k \in DOMAIN exe :
          (/\ ExecUnlock(k) \/ ExecGet(k)
           /\ Head(exe[k].jobs) \in DOMAIN lock
           /\ lock[Head(exe[k].jobs)] # exe[k].self)
              => lock' = lock]_vars

\* A routine has finished a job and is about to release the lock, while the
\* lock key holds the value written by another routine that acquired it after
\* the first one's lock expired and that is in its iteration for the job.
C38_Witness ==
    \E k, k2 \in DOMAIN exe :
        /\ k # k2
        /\ exe[k].pc = "unlock"
        /\ exe[k2].pc = "get"
        /\ Head(exe[k].jobs) = Head(exe[k2].jobs)
        /\ Head(exe[k].jobs) \in DOMAIN lock
        /\ lock[Head(exe[k].jobs)] = exe[k2].self
        /\ exe[k2].self # exe[k].self

\* C39: computing the leader is read-only: no step of GetLeader or IsLeader
\* changes the stored members map.
C39_LeaderQueryIsReadOnly ==
    [][(\E p \in Pods : LeaderQuery(p)) => members' = members]_vars

\* The same for the heartbeats alone, whatever the flags: a leader query
\* leaves every stored entry in the map with its last_seen.
LeaderQueryKeepsHeartbeats ==
    [][(\E p \in Pods : LeaderQuery(p)) =>
          \A q \in DOMAIN members :
              /\ q \in DOMAIN members'
              /\ members'[q].LastSeen = members[q].LastSeen]_vars

\* A pod is inside GetLeader with a copy of the map, and another pod's
\* presence update has been stored since the copy was read.
C39_Witness ==
    \E p, q \in Pods :
        /\ p # q
        /\ pod[p].st = "leading"
        /\ q \in DOMAIN pod[p].snap
        /\ q \in DOMAIN members
        /\ pod[p].snap[q].LastSeen < members[q].LastSeen

\* Every member of scheduler:jobs has a detail record under its id, its score
\* is the unix second of the record's scheduled_at, and its id is the
\* record's command_id, "_" and that second.
JobsAreWellFormed ==
    \A jobID \in DOMAIN zset :
        /\ jobID \in DOMAIN detail
        /\ detail[jobID].ID = jobID
        /\ zset[jobID] = Unix(detail[jobID].ScheduledAt)
        /\ jobID = NewJobID(detail[jobID].CommandID, detail[jobID].ScheduledAt)

\* A write of the assigner or of the executor.
AssignerOrExecutorWrites ==
    \/ \E k \in DOMAIN asg : AssignUnassign(k) \/ AssignPut(k)
    \/ \E k \in DOMAIN exe : ExecMark(k) \/ ExecFinish(k)

\* Such a write changes one record or none, and leaves every job with its
\* id, command_id, scheduled_at and score.
IdentityIsKept ==
    AssignerOrExecutorWrites =>
        /\ DOMAIN detail' = DOMAIN detail
        /\ zset' = zset
        /\ \A jobID \in DOMAIN detail :
             /\ detail'[jobID].ID = detail[jobID].ID
             /\ detail'[jobID].CommandID = detail[jobID].CommandID
             /\ detail'[jobID].ScheduledAt = detail[jobID].ScheduledAt

\* C40: in every reachable state each member of scheduler:jobs has the score
\* unix_seconds(scheduled_at) of its detail record and the id
\* command_id_score, and no write by the assigner or the executor changes a
\* job's id, command_id, scheduled_at or score.
C40_JobIdentityIsImmutable == []JobsAreWellFormed /\ [][IdentityIsKept]_vars

\* A job has been stored by the materializer, assigned, run and marked
\* success, and is still a member of scheduler:jobs.
C40_Witness ==
    \E jobID \in DOMAIN zset :
        /\ jobID \in DOMAIN detail
        /\ detail[jobID].Status = Success
        /\ detail[jobID].AssignedTo # ""
        /\ runs[jobID] # <<>>
        /\ zset[jobID] > 0

=============================================================================
